---------------------------- MODULE Spec2Model ----------------------------
(***************************************************************************)
(* Model of tools/check-balance-sync.py: the balance sync checker that     *)
(* compares the web simulator's <input> defaults against the exported      *)
(* BalanceConfig JSON.                                                     *)
(*                                                                         *)
(* Representation.                                                         *)
(*  - A float is an integer count of thousandths (1.1 is 1100, 50 is       *)
(*    50000).  Comparisons are then exact rational comparisons; IEEE       *)
(*    rounding, NaN and infinities are outside the model.                  *)
(*  - A JSON value / Python object is a tagged record [t, v].  None is the *)
(*    tag "none".  JSON null is not part of the modelled config trees.     *)
(*  - A dotted key path is the sequence of its "."-separated segments      *)
(*    (the value of key_path.split(".")).                                  *)
(*  - An HTML document is the sequence of its <input ...> tags in document *)
(*    order, each reduced to the text captured for id="..." and            *)
(*    value="..."; "" stands for "attribute not matched" (both regexes     *)
(*    require at least one character, so "" is never a captured text).     *)
(***************************************************************************)
EXTENDS Integers, Sequences, FiniteSets, TLC

VARIABLES
    \* ---- main() ----
    pc,            \* "start" | "check" | "fatal" | "done" | "raised"
    html_exists,   \* os.path.exists(HTML_PATH)
    json_exists,   \* os.path.exists(JSON_PATH)
    html,          \* contents of balance-simulator.html
    config,        \* json.load of balance-config-export.json
    web_defaults,  \* extract_html_defaults(html)
    matches, mismatches, missing,
    i,             \* iterations completed of the direct loop
    j,             \* iterations completed of the transformed loop
    out_lines,     \* lines written to standard output
    err_lines,     \* lines written to standard error
    exit_code,     \* process exit status; -1 while running
    \* ---- one call of values_match ----
    vm_pc, vm_a, vm_b, vm_res,
    \* ---- one call of get_nested, one loop iteration per step ----
    gn_pc, gn_obj, gn_keys, gn_k, gn_current, gn_result,
    \* ---- one call of extract_html_defaults ----
    ex_pc, ex_html, ex_defaults

mainVars == <<pc, html_exists, json_exists, html, config, web_defaults,
              matches, mismatches, missing, i, j, out_lines, err_lines,
              exit_code>>
vmVars == <<vm_pc, vm_a, vm_b, vm_res>>
gnVars == <<gn_pc, gn_obj, gn_keys, gn_k, gn_current, gn_result>>
exVars == <<ex_pc, ex_html, ex_defaults>>
vars == <<mainVars, vmVars, gnVars, exVars>>

---------------------------------------------------------------------------
\* Bounds of the explored inputs.

\* Longest HTML document, in <input> tags.
MaxElems == 2
\* Longest key path, in segments.
MaxPathLen == 3
\* values_match is explored on the integers within Near of 0, +-1000.
Near == 2

---------------------------------------------------------------------------
\* Python / JSON values.

None == [t |-> "none", v |-> 0]
Num(n) == [t |-> "num", v |-> n]
Str(s) == [t |-> "str", v |-> s]
Bool(b) == [t |-> "bool", v |-> b]
Dict(f) == [t |-> "dict", v |-> f]
List(q) == [t |-> "list", v |-> q]
EmptyDict == Dict([k \in {} |-> None])

Abs(x) == IF x < 0 THEN -x ELSE x

\* float(text): the parsed number in thousandths, or ValueError.
ParseFloat(s) ==
    CASE s = "0"    -> [ok |-> TRUE, v |-> 0]
      [] s = "0.5"  -> [ok |-> TRUE, v |-> 500]
      [] s = "1.1"  -> [ok |-> TRUE, v |-> 1100]
      [] s = "1.5"  -> [ok |-> TRUE, v |-> 1500]
      [] s = "42.5" -> [ok |-> TRUE, v |-> 42500]
      [] s = "50"   -> [ok |-> TRUE, v |-> 50000]
      [] OTHER      -> [ok |-> FALSE, v |-> 0]

\* float(config_val): numbers and booleans convert, numeric strings parse,
\* other strings raise ValueError, dicts and lists raise TypeError.
FloatOf(x) ==
    CASE x.t = "num"  -> [ok |-> TRUE, v |-> x.v]
      [] x.t = "bool" -> [ok |-> TRUE, v |-> IF x.v THEN 1000 ELSE 0]
      [] x.t = "str"  -> ParseFloat(x.v)
      [] OTHER        -> [ok |-> FALSE, v |-> 0]

\* int(key): the parsed integer, or ValueError.
IntOf(s) ==
    CASE s = "0"  -> [ok |-> TRUE, v |-> 0]
      [] s = "1"  -> [ok |-> TRUE, v |-> 1]
      [] s = "2"  -> [ok |-> TRUE, v |-> 2]
      [] s = "9"  -> [ok |-> TRUE, v |-> 9]
      [] s = "-1" -> [ok |-> TRUE, v |-> -1]
      [] OTHER    -> [ok |-> FALSE, v |-> 0]

\* Variant: a truthiness test (`if not x`) in place of `is None`.
IsNone_falsy(x) ==
    \/ x.t = "none"
    \/ x.t = "num" /\ x.v = 0
    \/ x.t = "bool" /\ ~x.v
\* `x is None`
IsNone(x) == x.t = "none"

---------------------------------------------------------------------------
\* values_match

ToleranceDen == 1000

\* Variant: the band excludes its edge.
values_match_strict(a, b) ==
    IF b = 0 THEN a = 0 ELSE Abs(a - b) * ToleranceDen < Abs(b)
\* abs(a - b) <= abs(b) * 0.001, with 0.001 = 1 / ToleranceDen
values_match(a, b) ==
    IF b = 0 THEN a = 0 ELSE Abs(a - b) * ToleranceDen <= Abs(b)

---------------------------------------------------------------------------
\* get_nested

\* current[int(key)] on a list, Python indexing: a negative index counts
\* from the end; ValueError and IndexError are caught and return None.
ListIndex(q, key) ==
    LET n == IntOf(key) IN
    IF ~n.ok THEN [ret |-> TRUE, val |-> None]
    ELSE IF 0 <= n.v /\ n.v < Len(q) THEN [ret |-> FALSE, val |-> q[n.v + 1]]
    ELSE IF -Len(q) <= n.v /\ n.v < 0
        THEN [ret |-> FALSE, val |-> q[Len(q) + n.v + 1]]
    ELSE [ret |-> TRUE, val |-> None]

\* current.get(key) on a dict
DictGet(f, key) == IF key \in DOMAIN f THEN f[key] ELSE None

\* One iteration of the for loop: ret means `return None`, otherwise val is
\* the new value of current.
LoopBody(current, key) ==
    IF current.t \notin {"dict", "list"} THEN [ret |-> TRUE, val |-> None]
    ELSE IF current.t = "list" THEN ListIndex(current.v, key)
    ELSE LET c == DictGet(current.v, key) IN
         IF IsNone(c) THEN [ret |-> TRUE, val |-> None]
         ELSE [ret |-> FALSE, val |-> c]

RECURSIVE Walk(_, _, _)
Walk(current, keys, k) ==
    IF k > Len(keys) THEN current
    ELSE LET r == LoopBody(current, keys[k]) IN
         IF r.ret THEN None ELSE Walk(r.val, keys, k + 1)

get_nested(obj, keys) == Walk(obj, keys, 1)

---------------------------------------------------------------------------
\* extract_html_defaults

\* Variant: the first occurrence of an id is kept.
ExtractTag_first(defaults, tag) ==
    IF tag.id # "" /\ tag.value # "" /\ ParseFloat(tag.value).ok
       /\ tag.id \notin DOMAIN defaults
    THEN [x \in DOMAIN defaults \cup {tag.id} |->
            IF x = tag.id THEN ParseFloat(tag.value).v ELSE defaults[x]]
    ELSE defaults
\* The body of the for loop for one tag.
ExtractTag(defaults, tag) ==
    IF tag.id # "" /\ tag.value # "" /\ ParseFloat(tag.value).ok
    THEN [x \in DOMAIN defaults \cup {tag.id} |->
            IF x = tag.id THEN ParseFloat(tag.value).v ELSE defaults[x]]
    ELSE defaults

RECURSIVE ExtractFrom(_, _, _)
ExtractFrom(doc, n, defaults) ==
    IF n > Len(doc) THEN defaults
    ELSE ExtractFrom(doc, n + 1, ExtractTag(defaults, doc[n]))

NoDefaults == [x \in {} |-> 0]

extract_html_defaults(doc) == ExtractFrom(doc, 1, NoDefaults)

---------------------------------------------------------------------------
\* Values of the variables a specification does not use (the four
\* specifications below share one set of variables).

IdleMain ==
    /\ pc = "idle" /\ html_exists = FALSE /\ json_exists = FALSE
    /\ html = << >> /\ config = EmptyDict /\ web_defaults = NoDefaults
    /\ matches = 0 /\ mismatches = 0 /\ missing = 0 /\ i = 0 /\ j = 0
    /\ out_lines = 0 /\ err_lines = 0 /\ exit_code = -1
IdleVm == vm_pc = "idle" /\ vm_a = 0 /\ vm_b = 0 /\ vm_res = FALSE
IdleGn ==
    /\ gn_pc = "idle" /\ gn_obj = EmptyDict /\ gn_keys = << >> /\ gn_k = 1
    /\ gn_current = EmptyDict /\ gn_result = None
IdleEx == ex_pc = "idle" /\ ex_html = << >> /\ ex_defaults = NoDefaults

\* Sequences over S of length lo..hi.
SeqsOf(S, lo, hi) == UNION {[1..n -> S] : n \in lo..hi}

---------------------------------------------------------------------------
\* One call values_match(vm_a, vm_b).

VmValues ==
    (-Near..Near) \cup ((1000 - Near)..(1000 + Near))
                  \cup ((-1000 - Near)..(-1000 + Near))

InitVm ==
    /\ vm_pc = "call" /\ vm_a \in VmValues /\ vm_b \in VmValues
    /\ vm_res = FALSE
    /\ IdleMain /\ IdleGn /\ IdleEx

VmCall ==
    /\ vm_pc = "call"
    /\ vm_res' = values_match(vm_a, vm_b)
    /\ vm_pc' = "returned"
    /\ UNCHANGED <<vm_a, vm_b, mainVars, gnVars, exVars>>

NextVm == VmCall
SpecValuesMatch == InitVm /\ [][NextVm]_vars

---------------------------------------------------------------------------
\* One call get_nested(gn_obj, gn_keys), stepped one loop iteration at a
\* time: gn_k is the position in keys of the next segment.

\* {"a": {"b": [1, 2, 3]}}
Tree1 == Dict([a |-> Dict([b |-> List(<<Num(1), Num(2), Num(3)>>)])])
\* {"a": [{"b": 0}, []], "b": "x", "c": 0}
Tree2 ==
    Dict([a |-> List(<<Dict([b |-> Num(0)]), List(<< >>)>>),
          b |-> Str("x"), c |-> Num(0)])
\* {"a": {"b": {"c": false}}, "0": [true]}
Tree3 ==
    Dict("0" :> List(<<Bool(TRUE)>>)
         @@ [a |-> Dict([b |-> Dict([c |-> Bool(FALSE)])])])
TreeIds == 0..3
TreeOf(n) ==
    CASE n = 1 -> Tree1 [] n = 2 -> Tree2 [] n = 3 -> Tree3
      [] OTHER -> EmptyDict

Segments == {"a", "b", "c", "0", "1", "9", "-1"}

InitGn ==
    /\ gn_pc = "loop"
    /\ \E n \in TreeIds : gn_obj = TreeOf(n) /\ gn_current = TreeOf(n)
    /\ gn_keys \in SeqsOf(Segments, 1, MaxPathLen)
    /\ gn_k = 1 /\ gn_result = None
    /\ IdleMain /\ IdleVm /\ IdleEx

\* lines 122-133: the loop body for keys[gn_k]
GnIterate ==
    /\ gn_pc = "loop" /\ gn_k <= Len(gn_keys)
    /\ LET r == LoopBody(gn_current, gn_keys[gn_k]) IN
       IF r.ret
       THEN /\ gn_pc' = "returned" /\ gn_result' = None
            /\ UNCHANGED <<gn_current, gn_k>>
       ELSE /\ gn_current' = r.val /\ gn_k' = gn_k + 1
            /\ UNCHANGED <<gn_pc, gn_result>>
    /\ UNCHANGED <<gn_obj, gn_keys, mainVars, vmVars, exVars>>

\* line 134: the loop is exhausted, return current
GnReturn ==
    /\ gn_pc = "loop" /\ gn_k > Len(gn_keys)
    /\ gn_pc' = "returned" /\ gn_result' = gn_current
    /\ UNCHANGED <<gn_obj, gn_keys, gn_k, gn_current, mainVars, vmVars, exVars>>

NextGn == GnIterate \/ GnReturn
SpecGetNested == InitGn /\ [][NextGn]_vars

---------------------------------------------------------------------------
\* One call extract_html_defaults(ex_html).

TagIds == {"", "threat-hp-scale", "cyber-phase2"}
TagValues == {"", "0", "1.1", "50", "medium"}
Tags == [id : TagIds, value : TagValues]

InitEx ==
    /\ ex_pc = "call" /\ ex_html \in SeqsOf(Tags, 0, MaxElems)
    /\ ex_defaults = NoDefaults
    /\ IdleMain /\ IdleVm /\ IdleGn

ExCall ==
    /\ ex_pc = "call"
    /\ ex_defaults' = extract_html_defaults(ex_html)
    /\ ex_pc' = "returned"
    /\ UNCHANGED <<ex_html, mainVars, vmVars, gnVars>>

NextEx == ExCall
SpecExtract == InitEx /\ [][NextEx]_vars

---------------------------------------------------------------------------
\* The mapping registry, in the order the loops visit it.

\* sorted(VALUE_MAP.items())
VALUE_MAP == <<
    [id |-> "comp-cost-cache", path |-> <<"components", "baseCosts", "cache">>],
    [id |-> "comp-cost-cpu", path |-> <<"components", "baseCosts", "cpu">>],
    [id |-> "comp-cost-expansion", path |-> <<"components", "baseCosts", "expansion">>],
    [id |-> "comp-cost-gpu", path |-> <<"components", "baseCosts", "gpu">>],
    [id |-> "comp-cost-io", path |-> <<"components", "baseCosts", "io">>],
    [id |-> "comp-cost-network", path |-> <<"components", "baseCosts", "network">>],
    [id |-> "comp-cost-psu", path |-> <<"components", "baseCosts", "psu">>],
    [id |-> "comp-cost-ram", path |-> <<"components", "baseCosts", "ram">>],
    [id |-> "comp-cost-storage", path |-> <<"components", "baseCosts", "storage">>],
    [id |-> "comp-max-level", path |-> <<"components", "maxLevel">>],
    [id |-> "cyber-hp", path |-> <<"bosses", "cyberboss", "baseHealth">>],
    [id |-> "eff-leak-interval", path |-> <<"efficiency", "leakDecayInterval">>],
    [id |-> "eff-warning", path |-> <<"efficiency", "warningThreshold">>],
    [id |-> "hash-base", path |-> <<"hashEconomy", "baseHashPerSecond">>],
    [id |-> "hash-cpu-mult", path |-> <<"hashEconomy", "cpuLevelScaling">>],
    [id |-> "offline-max-hours", path |-> <<"hashEconomy", "maxOfflineHours">>],
    [id |-> "power-base", path |-> <<"powerGrid", "basePowerBudget">>],
    [id |-> "proto-fire-mult", path |-> <<"protocolScaling", "fireRatePerLevel">>],
    [id |-> "proto-range-mult", path |-> <<"protocolScaling", "rangePerLevel">>],
    [id |-> "threat-dmg-scale", path |-> <<"threatLevel", "damageScaling">>],
    [id |-> "threat-hp-scale", path |-> <<"threatLevel", "healthScaling">>],
    [id |-> "threat-speed-scale", path |-> <<"threatLevel", "speedScaling">>],
    [id |-> "tower-power-common", path |-> <<"powerGrid", "towerPower", "common">>],
    [id |-> "tower-power-epic", path |-> <<"powerGrid", "towerPower", "epic">>],
    [id |-> "tower-power-legendary", path |-> <<"powerGrid", "towerPower", "legendary">>],
    [id |-> "tower-power-rare", path |-> <<"powerGrid", "towerPower", "rare">>],
    [id |-> "zeroday-drain", path |-> <<"zeroDay", "efficiencyDrainRate">>],
    [id |-> "zeroday-hash", path |-> <<"zeroDay", "defeatHashBonus">>],
    [id |-> "zeroday-hp", path |-> <<"zeroDay", "baseHealth">>],
    [id |-> "zeroday-min-waves", path |-> <<"zeroDay", "minWavesBeforeSpawn">>],
    [id |-> "zeroday-restore", path |-> <<"zeroDay", "defeatEfficiencyRestore">>],
    [id |-> "zeroday-speed", path |-> <<"zeroDay", "speed">>] >>

\* sorted(TRANSFORMS.items()); every entry's transform is lambda v: v / 100
TRANSFORMS == <<
    [id |-> "cyber-phase2", path |-> <<"bosses", "cyberboss", "phase2Threshold">>],
    [id |-> "cyber-phase3", path |-> <<"bosses", "cyberboss", "phase3Threshold">>],
    [id |-> "cyber-phase4", path |-> <<"bosses", "cyberboss", "phase4Threshold">>],
    [id |-> "offline-rate", path |-> <<"hashEconomy", "offlineEarningsRate">>] >>

\* lambda v: v / 100 (exact on the modelled web values, which are whole
\* multiples of 0.1)
transform(v) == v \div 100

---------------------------------------------------------------------------
\* main()

\* Config exports the run is explored on, as healthScaling / phase2Threshold
\* under threatLevel and bosses.cyberboss.
ConfigWith(hp, cyberboss) ==
    Dict([threatLevel |-> Dict([healthScaling |-> hp]),
          bosses |-> Dict([cyberboss |-> cyberboss])])
Phase2(x) == Dict([phase2Threshold |-> x])
ConfigIds == 0..7
ConfigOf(n) ==
    CASE n = 1 -> ConfigWith(Num(1100), Phase2(Num(500)))
      [] n = 2 -> ConfigWith(Num(1500), Phase2(Num(0)))
      [] n = 3 -> ConfigWith(Num(0), Phase2(Str("high")))
      [] n = 4 -> ConfigWith(Str("high"), Phase2(Num(500)))
      [] n = 5 -> ConfigWith(EmptyDict, List(<<Num(500)>>))
      [] n = 6 -> ConfigWith(Bool(FALSE), Phase2(Bool(TRUE)))
      [] n = 7 -> ConfigWith(Str("1.1"), Phase2(Str("0.5")))
      [] OTHER -> EmptyDict

MainTags == [id : {"threat-hp-scale", "cyber-phase2"},
             value : {"0", "1.1", "50", "medium"}]

Init ==
    /\ pc = "start"
    /\ html_exists \in BOOLEAN /\ json_exists \in BOOLEAN
    /\ IF html_exists /\ json_exists
       THEN /\ html \in SeqsOf(MainTags, 0, MaxElems)
            /\ \E n \in ConfigIds : config = ConfigOf(n)
       ELSE html = << >> /\ config = EmptyDict
    /\ web_defaults = NoDefaults
    /\ matches = 0 /\ mismatches = 0 /\ missing = 0 /\ i = 0 /\ j = 0
    /\ out_lines = 0 /\ err_lines = 0 /\ exit_code = -1
    /\ IdleVm /\ IdleGn /\ IdleEx

\* lines 145-147
MissingHtml ==
    /\ pc = "start" /\ ~html_exists
    /\ err_lines' = err_lines + 1
    /\ exit_code' = 1 /\ pc' = "fatal"
    /\ UNCHANGED <<html_exists, json_exists, html, config, web_defaults,
                   matches, mismatches, missing, i, j, out_lines,
                   vmVars, gnVars, exVars>>

\* lines 149-156
MissingJson ==
    /\ pc = "start" /\ html_exists /\ ~json_exists
    /\ err_lines' = err_lines + 6
    /\ exit_code' = 1 /\ pc' = "fatal"
    /\ UNCHANGED <<html_exists, json_exists, html, config, web_defaults,
                   matches, mismatches, missing, i, j, out_lines,
                   vmVars, gnVars, exVars>>

\* lines 158-171: read both files, extract, zero the counters, print the
\* header
LoadAndExtract ==
    /\ pc = "start" /\ html_exists /\ json_exists
    /\ web_defaults' = extract_html_defaults(html)
    /\ matches' = 0 /\ mismatches' = 0 /\ missing' = 0
    /\ out_lines' = out_lines + 3
    /\ pc' = "check"
    /\ UNCHANGED <<html_exists, json_exists, html, config, i, j, err_lines,
                   exit_code, vmVars, gnVars, exVars>>

\* web_defaults.get(html_id)
WebGet(html_id) ==
    IF html_id \in DOMAIN web_defaults THEN Num(web_defaults[html_id])
    ELSE None

\* float(config_val) raised: the exception leaves main(), the interpreter
\* writes the traceback to standard error and exits with status 1.
Raise ==
    /\ pc' = "raised" /\ exit_code' = 1 /\ err_lines' = err_lines + 1
    /\ UNCHANGED <<matches, mismatches, missing, i, j, out_lines>>

\* Variant: a skipped direct entry is printed but not counted.
CheckDirect_silent ==
    /\ pc = "check" /\ i < Len(VALUE_MAP)
    /\ LET web_val == WebGet(VALUE_MAP[i + 1].id)
           config_val == get_nested(config, VALUE_MAP[i + 1].path)
       IN  IF IsNone(web_val) \/ IsNone(config_val)
           THEN /\ out_lines' = out_lines + 1
                /\ i' = i + 1
                /\ UNCHANGED <<matches, mismatches, missing, j, pc,
                               exit_code, err_lines>>
           ELSE IF ~FloatOf(config_val).ok THEN Raise
           ELSE IF values_match(web_val.v, FloatOf(config_val).v)
           THEN /\ matches' = matches + 1 /\ i' = i + 1
                /\ UNCHANGED <<mismatches, missing, j, pc, exit_code,
                               out_lines, err_lines>>
           ELSE /\ mismatches' = mismatches + 1 /\ i' = i + 1
                /\ out_lines' = out_lines + 4
                /\ UNCHANGED <<matches, missing, j, pc, exit_code,
                               err_lines>>
    /\ UNCHANGED <<html_exists, json_exists, html, config, web_defaults,
                   vmVars, gnVars, exVars>>
\* lines 174-195: one iteration of the direct loop
CheckDirect ==
    /\ pc = "check" /\ i < Len(VALUE_MAP)
    /\ LET web_val == WebGet(VALUE_MAP[i + 1].id)
           config_val == get_nested(config, VALUE_MAP[i + 1].path)
       IN  IF IsNone(web_val) \/ IsNone(config_val)
           THEN /\ out_lines' = out_lines + 1
                /\ missing' = missing + 1 /\ i' = i + 1
                /\ UNCHANGED <<matches, mismatches, j, pc, exit_code,
                               err_lines>>
           ELSE IF ~FloatOf(config_val).ok THEN Raise
           ELSE IF values_match(web_val.v, FloatOf(config_val).v)
           THEN /\ matches' = matches + 1 /\ i' = i + 1
                /\ UNCHANGED <<mismatches, missing, j, pc, exit_code,
                               out_lines, err_lines>>
           ELSE /\ mismatches' = mismatches + 1 /\ i' = i + 1
                /\ out_lines' = out_lines + 4
                /\ UNCHANGED <<matches, missing, j, pc, exit_code,
                               err_lines>>
    /\ UNCHANGED <<html_exists, json_exists, html, config, web_defaults,
                   vmVars, gnVars, exVars>>

\* lines 198-215: one iteration of the transformed loop
CheckTransformed ==
    /\ pc = "check" /\ i = Len(VALUE_MAP) /\ j < Len(TRANSFORMS)
    /\ LET web_val == WebGet(TRANSFORMS[j + 1].id)
           config_val == get_nested(config, TRANSFORMS[j + 1].path)
       IN  IF IsNone(web_val) \/ IsNone(config_val)
           THEN /\ missing' = missing + 1 /\ j' = j + 1
                /\ UNCHANGED <<matches, mismatches, i, pc, exit_code,
                               out_lines, err_lines>>
           ELSE IF ~FloatOf(config_val).ok THEN Raise
           ELSE IF values_match(transform(web_val.v), FloatOf(config_val).v)
           THEN /\ matches' = matches + 1 /\ j' = j + 1
                /\ UNCHANGED <<mismatches, missing, i, pc, exit_code,
                               out_lines, err_lines>>
           ELSE /\ mismatches' = mismatches + 1 /\ j' = j + 1
                /\ out_lines' = out_lines + 4
                /\ UNCHANGED <<matches, missing, i, pc, exit_code,
                               err_lines>>
    /\ UNCHANGED <<html_exists, json_exists, html, config, web_defaults,
                   vmVars, gnVars, exVars>>

\* Variant: a single mismatch is tolerated.
Failed_two(mm) == mm > 1
\* `if mismatches > 0`
Failed(mm) == mm > 0

\* lines 217-228
Summarize ==
    /\ pc = "check" /\ i = Len(VALUE_MAP) /\ j = Len(TRANSFORMS)
    /\ IF Failed(mismatches)
       THEN out_lines' = out_lines + 5 /\ exit_code' = 1
       ELSE out_lines' = out_lines + 4 /\ exit_code' = 0
    /\ pc' = "done"
    /\ UNCHANGED <<html_exists, json_exists, html, config, web_defaults,
                   matches, mismatches, missing, i, j, err_lines,
                   vmVars, gnVars, exVars>>

Next ==
    \/ MissingHtml
    \/ MissingJson
    \/ LoadAndExtract
    \/ CheckDirect
    \/ CheckTransformed
    \/ Summarize

Spec == Init /\ [][Next]_vars

---------------------------------------------------------------------------
\* Properties.

\* The registry entry the next loop iteration processes.
HasEntry == pc = "check" /\ (i < Len(VALUE_MAP) \/ j < Len(TRANSFORMS))
Entry == IF i < Len(VALUE_MAP) THEN VALUE_MAP[i + 1] ELSE TRANSFORMS[j + 1]
InWeb == Entry.id \in DOMAIN web_defaults
Resolved == get_nested(config, Entry.path)
InConfig == Resolved.t # "none"
Tallied == matches + mismatches + missing

\* C1: when the run reaches Summarize, the exit code is 0 if and only if
\* the mismatch count is zero, and 1 otherwise, whatever the match and skip
\* counts are.
C1_ExitCodeIffNoMismatch ==
    pc = "done" =>
        /\ exit_code \in {0, 1}
        /\ exit_code = 0 <=> mismatches = 0
\* A finished run with skipped and matched entries and no mismatch exits 0.
C1_SkipsStillPass ==
    pc = "done" /\ missing > 0 /\ matches > 0 /\ mismatches = 0
    /\ exit_code = 0

\* C2: a missing input ends the run with exit code 1 before anything is
\* extracted, checked, counted or written to standard output, and a missing
\* input is the only way the run ends before Summarize.
C2_MissingInputIsOnlyEarlyEnd ==
    /\ (pc # "start" /\ ~(html_exists /\ json_exists)) =>
          /\ pc = "fatal" /\ exit_code = 1
          /\ DOMAIN web_defaults = {} /\ i = 0 /\ j = 0 /\ Tallied = 0
          /\ out_lines = 0 /\ err_lines > 0
    /\ pc \in {"fatal", "raised"} => ~(html_exists /\ json_exists)

\* C3: an entry present on both sides is counted as a match when
\* values_match(t(web value), float(config value)) holds, t being the
\* identity for direct entries and division by 100 for transformed ones,
\* and as a mismatch otherwise.
C3_Holds ==
    /\ FloatOf(Resolved).ok
    /\ LET web == web_defaults[Entry.id]
           observed == IF i < Len(VALUE_MAP) THEN web ELSE web \div 100
       IN  values_match(observed, FloatOf(Resolved).v)
C3_Step ==
    (HasEntry /\ InWeb /\ InConfig) =>
        IF C3_Holds
        THEN matches' = matches + 1 /\ mismatches' = mismatches
             /\ missing' = missing
        ELSE mismatches' = mismatches + 1 /\ matches' = matches
             /\ missing' = missing
C3_MatchIffValuesMatch == [][C3_Step]_vars

\* C4: values_match(a, b) is true exactly when b = 0 and a = 0, or b # 0
\* and |a - b| <= |b| * 0.001; in particular no non-zero a matches b = 0.
C4_ValuesMatchBand ==
    vm_pc = "returned" =>
        /\ vm_res <=> \/ vm_b = 0 /\ vm_a = 0
                      \/ vm_b # 0 /\ 1000 * Abs(vm_a - vm_b) <= Abs(vm_b)
        /\ (vm_b = 0 /\ vm_a # 0) => ~vm_res
\* The band is relative to the reference: 1000 against 999 fails while 999
\* against 1000 matches.
C4_Asymmetric ==
    /\ vm_pc = "returned" /\ vm_a = 1000 /\ vm_b = 999 /\ ~vm_res
    /\ values_match(vm_b, vm_a)

\* The value a path denotes as C5 states it: mapping keys and sequence
\* indexes 0 .. length - 1 are followed, anything else is absence.
C5_Next(node, seg) ==
    IF node.t = "dict"
    THEN (IF seg \in DOMAIN node.v THEN node.v[seg] ELSE None)
    ELSE IF node.t = "list"
    THEN (IF IntOf(seg).ok /\ IntOf(seg).v \in 0..(Len(node.v) - 1)
          THEN node.v[IntOf(seg).v + 1] ELSE None)
    ELSE None
RECURSIVE C5_Denotes(_, _, _)
C5_Denotes(node, keys, k) ==
    IF k > Len(keys) \/ node.t = "none" THEN node
    ELSE C5_Denotes(C5_Next(node, keys[k]), keys, k + 1)

\* C5: get_nested never raises; it returns the value reached when every
\* segment is an existing key or an in-bounds index, and absence when a key
\* is missing, a segment is no integer at a sequence, an index is out of
\* bounds, or a leaf is reached with segments remaining.
C5_ValueOrAbsence ==
    gn_pc = "returned" =>
        LET want == C5_Denotes(gn_obj, gn_keys, 1) IN
        /\ gn_result.t = want.t
        /\ gn_result.v = want.v

\* C6: with both inputs present no exception escapes, whatever node a
\* registry path resolves to.
C6_NoExceptionEscapes == (html_exists /\ json_exists) => pc # "raised"

\* C7: the extracted mapping holds an identifier exactly when some tag
\* carries it with a numeric value, and maps it to the value of the last
\* such tag.
C7_Numeric(n, id) ==
    /\ ex_html[n].id = id /\ ex_html[n].value # ""
    /\ ParseFloat(ex_html[n].value).ok
C7_LastNumericWins ==
    ex_pc = "returned" =>
        /\ DOMAIN ex_defaults \subseteq TagIds \ {""}
        /\ \A id \in TagIds \ {""} :
              LET hits == {n \in 1..Len(ex_html) : C7_Numeric(n, id)} IN
              /\ id \in DOMAIN ex_defaults <=> hits # {}
              /\ hits # {} =>
                    LET last == CHOOSE n \in hits : \A m \in hits : m <= n
                    IN  ex_defaults[id] = ParseFloat(ex_html[last].value).v
\* Two numeric tags share an id (a non-numeric one follows or not): the
\* later value is the one kept.
C7_DuplicateKeepsLast ==
    /\ ex_pc = "returned" /\ Len(ex_html) = 2
    /\ ex_html[1] = [id |-> "cyber-phase2", value |-> "1.1"]
    /\ ex_html[2] = [id |-> "cyber-phase2", value |-> "50"]
    /\ ex_defaults["cyber-phase2"] = 50000

\* C8: an entry is skipped exactly when its identifier is not in
\* WebDefaults or its path resolves to absence; a skipped entry counts as
\* neither match nor mismatch, and a present value equal to zero is
\* compared, not skipped.
C8_Step ==
    HasEntry =>
        /\ missing' = missing + 1 <=> ~(InWeb /\ InConfig)
        /\ ~(InWeb /\ InConfig) =>
              matches' = matches /\ mismatches' = mismatches
        /\ (InWeb /\ InConfig) => missing' = missing
        /\ (InWeb /\ Resolved.t = "num") =>
              matches' + mismatches' = matches + mismatches + 1
C8_SkippedIffAbsent == [][C8_Step]_vars
\* Web default 0 against a config parameter stored as 0 was compared and
\* matched while every other entry was skipped.
C8_ZeroCompared ==
    /\ pc = "done"
    /\ "threat-hp-scale" \in DOMAIN web_defaults
    /\ web_defaults["threat-hp-scale"] = 0
    /\ get_nested(config, <<"threatLevel", "healthScaling">>) = Num(0)
    /\ matches = 1 /\ missing = 35

\* C9: at a sequence node only a non-negative integer segment smaller than
\* the length yields an element; every other segment yields absence.
C9_Step ==
    (gn_pc = "loop" /\ gn_k <= Len(gn_keys) /\ gn_current.t = "list") =>
        LET n == IntOf(gn_keys[gn_k]) IN
        \/ n.ok /\ n.v \in 0..(Len(gn_current.v) - 1)
        \/ gn_pc' = "returned" /\ gn_result'.t = "none"
C9_OnlyNonNegativeIndex == [][C9_Step]_vars

\* C10: the three counters always sum to the number of entries processed;
\* processing an entry adds one to exactly one counter, no counter ever
\* decreases, and at Summarize the sum is the registry size, 32 + 4 = 36.
C10_Inv ==
    pc \in {"check", "done", "raised"} =>
        /\ Tallied = i + j
        /\ i <= 32 /\ j <= 4
        /\ pc = "done" => i = 32 /\ j = 4 /\ Tallied = 36
C10_Step ==
    /\ matches' >= matches /\ mismatches' >= mismatches
    /\ missing' >= missing
    /\ i' + j' \in {i + j, i + j + 1}
    /\ (pc = "check" /\ i' + j' = i + j + 1) =>
          \/ matches' = matches + 1 /\ UNCHANGED <<mismatches, missing>>
          \/ mismatches' = mismatches + 1 /\ UNCHANGED <<matches, missing>>
          \/ missing' = missing + 1 /\ UNCHANGED <<matches, mismatches>>
C10_CountsSumToProcessed == []C10_Inv /\ [][C10_Step]_vars
\* A finished run that counted at least one entry of each kind.
C10_AllThreeCounted ==
    /\ pc = "done" /\ matches > 0 /\ mismatches > 0 /\ missing > 0
    /\ Tallied = 36

===========================================================================
